---------------------------- MODULE Spec2Model ----------------------------
(***************************************************************************)
(* A model of the Cetustek e-invoice client (src/src/cetustek/client.py).  *)
(*                                                                         *)
(* Text is modelled character by character: a Python str is a sequence of  *)
(* one-character strings, so that escaping, trimming, regular-expression   *)
(* search and splitting are computed the way the code computes them.       *)
(* An Optional[str] is a record [some, val]; None is [some |-> FALSE].     *)
(***************************************************************************)
EXTENDS Integers, Sequences, FiniteSets, TLC

VARIABLES endpoint,   \* self.endpoint
          rent_id,    \* self.rent_id
          source,     \* self.source
          op,         \* the API method called last ("none" before any call)
          data,       \* its input record
          request,    \* the SOAP envelope it handed to requests.post
          no_check,   \* its no_check argument (cancelInvoice)
          response,   \* the HTTP response it received: [status, text]
          result,     \* what it returned or raised
          posts       \* the calls of requests.post it made: [url, data]

vars ==
    <<endpoint, rent_id, source, op, data, no_check, request, response, result, posts>>

-----------------------------------------------------------------------------
(* Bounds of the explored inputs.                                          *)

\* longest <return> content, in atoms, of the create and cancel bodies
MaxContent == 3
\* longest free-text field value, in characters, drawn exhaustively
MaxTextLen == 2
\* longest item list of a create input
MaxItems == 2
\* most elements in the invoice document of a query payload
MaxQueryElems == 2

-----------------------------------------------------------------------------
(* Python values.                                                          *)

None == [some |-> FALSE, val |-> <<>>]

Some(s) == [some |-> TRUE, val |-> s]

\* Python's `x or ""` for an Optional[str]: None and "" are both falsy.
OrEmpty(x) == IF x.some /\ x.val # <<>> THEN x.val ELSE <<>>

\* bool(x) of an Optional[str]
Truthy(x) == x.some /\ x.val # <<>>

\* The characters str.strip() removes, among those the model writes.
Whitespace == {" ", "\t", "\n", "\r", "\f"}

RECURSIVE lstrip(_)
lstrip(s) == IF s # <<>> /\ Head(s) \in Whitespace THEN lstrip(Tail(s)) ELSE s

RECURSIVE rstrip(_)
rstrip(s) ==
    IF s # <<>> /\ s[Len(s)] \in Whitespace
    THEN rstrip(SubSeq(s, 1, Len(s) - 1))
    ELSE s

\* str.strip()
strip(s) == rstrip(lstrip(s))

\* str.startswith(p)
startswith(s, p) == Len(s) >= Len(p) /\ SubSeq(s, 1, Len(p)) = p

RECURSIVE concat(_)
\* "".join(parts)
concat(parts) == IF parts = <<>> THEN <<>> ELSE Head(parts) \o concat(Tail(parts))

\* ASCII lower case, as re.IGNORECASE folds the letters of the tag names
LowerOf ==
    [A |-> "a", B |-> "b", C |-> "c", D |-> "d", E |-> "e", F |-> "f",
     G |-> "g", H |-> "h", I |-> "i", J |-> "j", K |-> "k", L |-> "l",
     M |-> "m", N |-> "n", O |-> "o", P |-> "p", Q |-> "q", R |-> "r",
     S |-> "s", T |-> "t", U |-> "u", V |-> "v", W |-> "w", X |-> "x",
     Y |-> "y", Z |-> "z"]

lower(c) == IF c \in DOMAIN LowerOf THEN LowerOf[c] ELSE c

\* pattern p matches text s at position i (literal characters only)
MatchAt(s, p, i, icase) ==
    /\ i >= 1
    /\ i + Len(p) - 1 <= Len(s)
    /\ \A k \in 1..Len(p) :
          IF icase THEN lower(s[i + k - 1]) = lower(p[k]) ELSE s[i + k - 1] = p[k]

Min(S) == CHOOSE x \in S : \A y \in S : x <= y

\* the characters that match c, ignoring case under re.IGNORECASE
FirstChars(c, icase) ==
    IF icase
    THEN {c, lower(c)} \cup {u \in DOMAIN LowerOf : LowerOf[u] = lower(c)}
    ELSE {c}

\* the positions of s where the literal pattern p matches
Matches(s, p, icase) ==
    LET cs == FirstChars(p[1], icase)
    IN  {i \in 1..Len(s) : s[i] \in cs /\ MatchAt(s, p, i, icase)}

\* re.search(open + "(.*?)" + close, s, flags): the leftmost start that
\* matches, with the shortest group there; without re.DOTALL the group
\* holds no line feed.  [found, group]
re_search(s, open, close, dotall, icase) ==
    LET opens == Matches(s, open, icase)
        closes == IF opens = {} THEN {} ELSE Matches(s, close, icase)
        GroupEnds(i) ==
            {j \in closes :
                /\ j >= i + Len(open)
                /\ dotall \/ \A k \in (i + Len(open))..(j - 1) : s[k] # "\n"}
        starts == {i \in opens : GroupEnds(i) # {}}
    IN  IF starts = {}
        THEN [found |-> FALSE, group |-> <<>>]
        ELSE LET i == Min(starts)
                 j == Min(GroupEnds(i))
             IN  [found |-> TRUE, group |-> SubSeq(s, i + Len(open), j - 1)]

-----------------------------------------------------------------------------
(* Exceptions.                                                             *)

\* class CetustekError(Exception), class CetustekAPIError(CetustekError);
\* requests.exceptions.HTTPError is outside that hierarchy.
IsCetustekAPIError(r) == r.kind = "CetustekAPIError"

IsCetustekError(r) == r.kind \in {"CetustekError", "CetustekAPIError"}

IsRaised(r) == r.kind \in {"CetustekError", "CetustekAPIError", "HTTPError"}

CetustekError(msg) == [kind |-> "CetustekError", message |-> msg]

CetustekAPIError(code, message) ==
    [kind |-> "CetustekAPIError", code |-> code, message |-> message]

-----------------------------------------------------------------------------
(* Response parsers.                                                       *)

\* "Invalid response: missing <return> tag"
MissingReturnTag ==
    <<"I","n","v","a","l","i","d"," ","r","e","s","p","o","n","s","e",":",
      " ","m","i","s","s","i","n","g"," ","<","r","e","t","u","r","n",">"," ","t","a","g">>

\* "Unexpected response format"
UnexpectedFormat ==
    <<"U","n","e","x","p","e","c","t","e","d"," ","r","e","s","p","o","n","s","e",
      " ","f","o","r","m","a","t">>

ReturnOpen == <<"<","r","e","t","u","r","n",">">>

ReturnClose == <<"<","/","r","e","t","u","r","n",">">>

\* Cetustek._extract_return_value: [kind |-> "str", value] or the raise
extract_return_value(response_xml, dotall) ==
    LET match == re_search(response_xml, ReturnOpen, ReturnClose, dotall, FALSE)
    IN  IF ~match.found
        THEN CetustekError(MissingReturnTag)
        ELSE [kind |-> "str", value |-> strip(match.group)]

\* the positions of sep in s
Positions(s, sep) == {i \in 1..Len(s) : s[i] = sep}

RECURSIVE split(_, _)
\* str.split(sep) for a one-character separator
split(s, sep) ==
    IF Positions(s, sep) = {}
    THEN <<s>>
    ELSE LET i == Min(Positions(s, sep))
         IN  <<SubSeq(s, 1, i - 1)>> \o split(SubSeq(s, i + 1, Len(s)), sep)

\* CreateInvoiceResponse.invoice_year: the slice invoice_number[2:6]
invoice_year(r) == SubSeq(r.invoice_number, 3, Min({6, Len(r.invoice_number)}))

\* a variant that takes the two parts of the value the other way round
parse_create_response_swapped(response_xml) ==
    LET rv == extract_return_value(response_xml, FALSE)
    IN  IF rv.kind # "str" THEN rv
        ELSE IF Positions(rv.value, ";") = {}
        THEN CetustekAPIError(rv.value, None)
        ELSE LET parts == split(rv.value, ";")
             IN  IF Len(parts) # 2
                 THEN CetustekAPIError(rv.value, Some(UnexpectedFormat))
                 ELSE [kind           |-> "CreateInvoiceResponse",
                       invoice_number |-> parts[2],
                       random_code    |-> parts[1]]

\* a variant that raises the plain CetustekError for a value of several parts
parse_create_response_protocol(response_xml) ==
    LET rv == extract_return_value(response_xml, FALSE)
    IN  IF rv.kind # "str" THEN rv
        ELSE IF Positions(rv.value, ";") = {}
        THEN CetustekAPIError(rv.value, None)
        ELSE LET parts == split(rv.value, ";")
             IN  IF Len(parts) # 2
                 THEN CetustekError(UnexpectedFormat)
                 ELSE [kind           |-> "CreateInvoiceResponse",
                       invoice_number |-> parts[1],
                       random_code    |-> parts[2]]

\* Cetustek._parse_create_response
parse_create_response(response_xml) ==
    LET rv == extract_return_value(response_xml, FALSE)
    IN  IF rv.kind # "str" THEN rv
        ELSE IF Positions(rv.value, ";") = {}
        THEN CetustekAPIError(rv.value, None)
        ELSE LET parts == split(rv.value, ";")
             IN  IF Len(parts) # 2
                 THEN CetustekAPIError(rv.value, Some(UnexpectedFormat))
                 ELSE [kind           |-> "CreateInvoiceResponse",
                       invoice_number |-> parts[1],
                       random_code    |-> parts[2]]

\* Cetustek._parse_cancel_response
parse_cancel_response(response_xml) ==
    LET rv == extract_return_value(response_xml, FALSE)
    IN  IF rv.kind # "str" THEN rv
        ELSE LET success == (rv.value = <<"C","0">>)
             IN  [kind    |-> "CancelInvoiceResponse",
                  success |-> success,
                  code    |-> rv.value,
                  message |-> IF success THEN None ELSE Some(rv.value)]

-----------------------------------------------------------------------------
(* html.unescape, for the references the modelled bodies can spell:        *)
(* decimal character references and the named references below.  The       *)
(* bodies never contain "&#x", nor "&" followed by another HTML5 name.     *)

Digits == {"0", "1", "2", "3", "4", "5", "6", "7", "8", "9"}

DigitVal ==
    [d \in Digits |->
        CASE d = "0" -> 0 [] d = "1" -> 1 [] d = "2" -> 2 [] d = "3" -> 3
          [] d = "4" -> 4 [] d = "5" -> 5 [] d = "6" -> 6 [] d = "7" -> 7
          [] d = "8" -> 8 [] d = "9" -> 9]

RECURSIVE int_of(_)
\* int(s) of a string of decimal digits
int_of(s) ==
    IF s = <<>> THEN 0
    ELSE 10 * int_of(SubSeq(s, 1, Len(s) - 1)) + DigitVal[s[Len(s)]]

\* chr(n), for the code points the bodies refer to
chr(n) ==
    CASE n = 9 -> "\t" [] n = 10 -> "\n" [] n = 13 -> "\r" [] n = 32 -> " "
      [] n = 38 -> "&" [] n = 59 -> ";" [] n = 60 -> "<" [] n = 62 -> ">"

\* html.entities.html5, restricted to the names the bodies can spell
Html5 ==
    {[name |-> <<"l","t",";">>, char |-> "<"],
     [name |-> <<"l","t">>, char |-> "<"],
     [name |-> <<"g","t",";">>, char |-> ">"],
     [name |-> <<"g","t">>, char |-> ">"],
     [name |-> <<"a","m","p",";">>, char |-> "&"],
     [name |-> <<"a","m","p">>, char |-> "&"],
     [name |-> <<"q","u","o","t",";">>, char |-> "\""],
     [name |-> <<"q","u","o","t">>, char |-> "\""],
     [name |-> <<"a","p","o","s",";">>, char |-> "'"]}

InHtml5(name) == \E e \in Html5 : e.name = name

Html5Char(name) == (CHOOSE e \in Html5 : e.name = name).char

Max(S) == CHOOSE x \in S : \A y \in S : x >= y

\* the length of the longest run of decimal digits of s from position i
DigitRun(s, i) ==
    Max({n \in 0..(Len(s) - i + 1) : \A k \in 0..(n - 1) : s[i + k] \in Digits})

\* [^\t\n\f <&#;]
NameChar(c) == c \notin {"\t", "\n", "\f", " ", "<", "&", "#", ";"}

\* the length of the longest run, of at most 32, of name characters from i
NameRun(s, i) ==
    Max({n \in 0..(IF Len(s) - i + 1 < 32 THEN Len(s) - i + 1 ELSE 32) :
            \A k \in 0..(n - 1) : NameChar(s[i + k])})

\* 1 when s has a ";" at position i, else 0 (the pattern's ";?")
Semi(s, i) == IF i <= Len(s) /\ s[i] = ";" THEN 1 ELSE 0

\* _replace_charref for a named reference s (the text after "&")
replace_named(s) ==
    IF InHtml5(s) THEN <<Html5Char(s)>>
    ELSE LET prefixes == {x \in 2..(Len(s) - 1) : InHtml5(SubSeq(s, 1, x))}
         IN  IF prefixes # {}
             THEN LET x == Max(prefixes)
                  IN  <<Html5Char(SubSeq(s, 1, x))>> \o SubSeq(s, x + 1, Len(s))
             ELSE <<"&">> \o s

RECURSIVE unescape_from(_, _)
\* _charref.sub(_replace_charref, s), from position i on: the text up to
\* the next "&" is kept, and a reference that matches there is replaced
unescape_from(s, i) ==
    LET amps == {k \in i..Len(s) : s[k] = "&"}
    IN  IF amps = {} THEN SubSeq(s, i, Len(s))
        ELSE LET a == Min(amps)
             IN  SubSeq(s, i, a - 1) \o
                 (IF a < Len(s) /\ s[a + 1] = "#" /\ DigitRun(s, a + 2) > 0
                  THEN LET n == DigitRun(s, a + 2)
                       IN  <<chr(int_of(SubSeq(s, a + 2, a + 1 + n)))>>
                               \o unescape_from(s, a + 2 + n + Semi(s, a + 2 + n))
                  ELSE IF NameRun(s, a + 1) > 0
                  THEN LET n == NameRun(s, a + 1)
                           m == n + Semi(s, a + 1 + n)
                       IN  replace_named(SubSeq(s, a + 1, a + m))
                               \o unescape_from(s, a + 1 + m)
                  ELSE <<"&">> \o unescape_from(s, a + 1))

\* html.unescape
unescape(s) == unescape_from(s, 1)

-----------------------------------------------------------------------------
(* float(), for decimal literals without exponent: the amounts of the      *)
(* modelled bodies are written with digits, ".", "+", "-" and letters      *)
(* that make them malformed.  A float is [num, scale]: num / 10^scale.     *)

AllDigits(s) == \A k \in 1..Len(s) : s[k] \in Digits

\* the literal without its sign
Unsigned(s) == IF s # <<>> /\ s[1] \in {"+", "-"} THEN Tail(s) ELSE s

\* digits [. [digits]]  |  . digits
IsFloatLiteral(s) ==
    LET u == Unsigned(s)
        dots == Positions(u, ".")
    IN  IF dots = {}
        THEN u # <<>> /\ AllDigits(u)
        ELSE LET d == Min(dots)
                 ip == SubSeq(u, 1, d - 1)
                 fp == SubSeq(u, d + 1, Len(u))
             IN  AllDigits(ip) /\ AllDigits(fp) /\ Len(ip) + Len(fp) > 0

RECURSIVE normal(_, _)
\* num / 10^scale in lowest decimal terms
normal(num, scale) ==
    IF scale > 0 /\ num % 10 = 0 THEN normal(num \div 10, scale - 1)
    ELSE [num |-> num, scale |-> scale]

\* float(s) of a literal
float_of(s) ==
    LET u == Unsigned(s)
        dots == Positions(u, ".")
        d == IF dots = {} THEN Len(u) + 1 ELSE Min(dots)
        ip == SubSeq(u, 1, d - 1)
        fp == SubSeq(u, d + 1, Len(u))
        mag == normal(int_of(ip \o fp), Len(fp))
    IN  IF s[1] = "-" THEN [num |-> 0 - mag.num, scale |-> mag.scale] ELSE mag

NoFloat == [some |-> FALSE, val |-> [num |-> 0, scale |-> 0]]

-----------------------------------------------------------------------------
(* Query response parser.                                                  *)

Open(tag) == <<"<">> \o tag \o <<">">>

Close(tag) == <<"<", "/">> \o tag \o <<">">>

\* Cetustek._extract_xml_value
extract_xml_value(xml, tag) ==
    LET match == re_search(xml, Open(tag), Close(tag), TRUE, TRUE)
    IN  IF match.found
        THEN LET value == strip(match.group)
             IN  IF value # <<>> THEN Some(value) ELSE None
        ELSE None

\* a variant that answers 0.0 for a malformed number
extract_xml_float_zero(xml, tag) ==
    LET value == extract_xml_value(xml, tag)
    IN  IF Truthy(value)
        THEN IF IsFloatLiteral(value.val)
             THEN [some |-> TRUE, val |-> float_of(value.val)]
             ELSE [some |-> TRUE, val |-> [num |-> 0, scale |-> 0]]
        ELSE NoFloat

\* Cetustek._extract_xml_float
extract_xml_float(xml, tag) ==
    LET value == extract_xml_value(xml, tag)
    IN  IF Truthy(value)
        THEN IF IsFloatLiteral(value.val)
             THEN [some |-> TRUE, val |-> float_of(value.val)]
             ELSE NoFloat
        ELSE NoFloat

T_InvoiceDate == <<"I","n","v","o","i","c","e","D","a","t","e">>

T_InvoiceTime == <<"I","n","v","o","i","c","e","T","i","m","e">>

T_OrderID == <<"O","r","d","e","r","I","D">>

T_RandomNumber == <<"R","a","n","d","o","m","N","u","m","b","e","r">>

T_BuyerIdentifier == <<"B","u","y","e","r","I","d","e","n","t","i","f","i","e","r">>

T_BuyerName == <<"B","u","y","e","r","N","a","m","e">>

T_SellerIdentifier == <<"S","e","l","l","e","r","I","d","e","n","t","i","f","i","e","r">>

T_SellerName == <<"S","e","l","l","e","r","N","a","m","e">>

T_InvoiceStatus == <<"I","n","v","o","i","c","e","S","t","a","t","u","s">>

T_DonateMark == <<"D","o","n","a","t","e","M","a","r","k">>

T_CarrierType == <<"C","a","r","r","i","e","r","T","y","p","e">>

T_CarrierId1 == <<"C","a","r","r","i","e","r","I","d","1">>

T_NPOBAN == <<"N","P","O","B","A","N">>

T_TaxType == <<"T","a","x","T","y","p","e">>

T_SalesAmount == <<"S","a","l","e","s","A","m","o","u","n","t">>

T_TaxAmount == <<"T","a","x","A","m","o","u","n","t">>

T_TotalAmount == <<"T","o","t","a","l","A","m","o","u","n","t">>

\* a variant whose test does not trim the unescaped text
is_error_payload_untrimmed(invoice_xml) == ~startswith(invoice_xml, <<"<">>)

\* the test of Cetustek._parse_query_response: the response is an error
is_error_payload(invoice_xml) == ~startswith(strip(invoice_xml), <<"<">>)

\* Cetustek._parse_query_response
parse_query_response(response_xml, invoice_number) ==
    LET rv == extract_return_value(response_xml, TRUE)
    IN  IF rv.kind # "str" THEN rv
        ELSE LET invoice_xml == unescape(rv.value)
             IN  IF is_error_payload(invoice_xml)
                 THEN CetustekAPIError(invoice_xml, None)
                 ELSE [kind |-> "QueryInvoiceResponse",
                       invoice_number |-> invoice_number,
                       invoice_date |-> extract_xml_value(invoice_xml, T_InvoiceDate),
                       invoice_time |-> extract_xml_value(invoice_xml, T_InvoiceTime),
                       order_id |-> extract_xml_value(invoice_xml, T_OrderID),
                       random_code |-> extract_xml_value(invoice_xml, T_RandomNumber),
                       buyer_identifier |-> extract_xml_value(invoice_xml, T_BuyerIdentifier),
                       buyer_name |-> extract_xml_value(invoice_xml, T_BuyerName),
                       seller_identifier |-> extract_xml_value(invoice_xml, T_SellerIdentifier),
                       seller_name |-> extract_xml_value(invoice_xml, T_SellerName),
                       invoice_status |-> extract_xml_value(invoice_xml, T_InvoiceStatus),
                       donate_mark |-> extract_xml_value(invoice_xml, T_DonateMark),
                       carrier_type |-> extract_xml_value(invoice_xml, T_CarrierType),
                       carrier_id |-> extract_xml_value(invoice_xml, T_CarrierId1),
                       npoban |-> extract_xml_value(invoice_xml, T_NPOBAN),
                       tax_type |-> extract_xml_value(invoice_xml, T_TaxType),
                       sales_amount |-> extract_xml_float(invoice_xml, T_SalesAmount),
                       tax_amount |-> extract_xml_float(invoice_xml, T_TaxAmount),
                       total_amount |-> extract_xml_float(invoice_xml, T_TotalAmount),
                       raw_xml |-> invoice_xml]

-----------------------------------------------------------------------------
(* Request builders.                                                       *)

RECURSIVE replace(_, _, _)
\* str.replace(old, new) for a one-character old
replace(s, old, new) ==
    IF Positions(s, old) = {} THEN s
    ELSE LET i == Min(Positions(s, old))
         IN  SubSeq(s, 1, i - 1) \o new \o replace(SubSeq(s, i + 1, Len(s)), old, new)

AmpEntity == <<"&","a","m","p",";">>

GtEntity == <<"&","g","t",";">>

LtEntity == <<"&","l","t",";">>

\* a variant that leaves ">" as it is
escape_keeping_gt(s) == replace(replace(s, "&", AmpEntity), "<", LtEntity)

\* xml.sax.saxutils.escape: "&" first, then ">" and "<"
escape(s) == replace(replace(replace(s, "&", AmpEntity), ">", GtEntity), "<", LtEntity)

DigitChar == <<"0", "1", "2", "3", "4", "5", "6", "7", "8", "9">>

RECURSIVE str_int(_)
\* str(n) of a non-negative int
str_int(n) ==
    IF n < 10 THEN <<DigitChar[n + 1]>>
    ELSE str_int(n \div 10) \o <<DigitChar[(n % 10) + 1]>>

\* str(x) of a non-negative float of at most two decimals, x = h / 100:
\* the shortest decimal that reads back as x, with at least one decimal
str_float(h) ==
    str_int(h \div 100) \o <<".">> \o
        (IF h % 10 = 0
         THEN <<DigitChar[((h % 100) \div 10) + 1]>>
         ELSE <<DigitChar[((h % 100) \div 10) + 1], DigitChar[(h % 10) + 1]>>)

\* f"{x}" of an Optional[float]: str(None) is "None"
format_optional_float(x) == IF x.some THEN str_float(x.val) ELSE <<"N","o","n","e">>

NL == <<"\n">>

Elem(tag, content) == Open(tag) \o content \o Close(tag)

T_ProductItem == <<"P","r","o","d","u","c","t","I","t","e","m">>

T_ProductionCode ==
    <<"P","r","o","d","u","c","t","i","o","n","C","o","d","e">>

T_Description == <<"D","e","s","c","r","i","p","t","i","o","n">>

T_Quantity == <<"Q","u","a","n","t","i","t","y">>

T_Unit == <<"U","n","i","t">>

T_UnitPrice == <<"U","n","i","t","P","r","i","c","e">>

T_OrderId == <<"O","r","d","e","r","I","d">>

T_OrderDate == <<"O","r","d","e","r","D","a","t","e">>

T_BuyerEmailAddress ==
    <<"B","u","y","e","r","E","m","a","i","l","A","d","d","r","e","s","s">>

T_BuyerAddress == <<"B","u","y","e","r","A","d","d","r","e","s","s">>

T_InvoiceType == <<"I","n","v","o","i","c","e","T","y","p","e">>

T_CarrierId2 == <<"C","a","r","r","i","e","r","I","d","2">>

T_PayWay == <<"P","a","y","W","a","y">>

T_TaxRate == <<"T","a","x","R","a","t","e">>

T_Remark == <<"R","e","m","a","r","k">>

T_Details == <<"D","e","t","a","i","l","s">>

T_InvoiceNumber == <<"I","n","v","o","i","c","e","N","u","m","b","e","r">>

T_InvoiceYear == <<"I","n","v","o","i","c","e","Y","e","a","r">>

T_ReturnTaxDocumentNumber ==
    <<"R","e","t","u","r","n","T","a","x","D","o","c","u","m","e","n","t",
      "N","u","m","b","e","r">>

T_invoicexml == <<"i","n","v","o","i","c","e","x","m","l">>

T_rentid == <<"r","e","n","t","i","d">>

T_source == <<"s","o","u","r","c","e">>

T_invoicenumber == <<"i","n","v","o","i","c","e","n","u","m","b","e","r">>

T_invoiceyear == <<"i","n","v","o","i","c","e","y","e","a","r">>

InvoiceOpen ==
    <<"<","I","n","v","o","i","c","e"," ","X","S","D","V","e","r","s","i",
      "o","n","=","\"","2",".","8","\"",">">>

InvoiceClose == <<"<","/","I","n","v","o","i","c","e",">">>

CDataOpen == <<"<","!","[","C","D","A","T","A","[">>

CDataClose == <<"]","]",">">>

Indent2 == <<" "," ">>

\* a variant that writes the <Unit> element of every item
item_xml_unit_always(item) ==
    NL \o Open(T_ProductItem) \o NL
       \o Indent2 \o Elem(T_ProductionCode, escape(item.production_code)) \o NL
       \o Indent2 \o Elem(T_Description, escape(item.description)) \o NL
       \o Indent2 \o Elem(T_Quantity, str_int(item.quantity)) \o NL
       \o Indent2 \o Elem(T_Unit, escape(OrEmpty(item.unit))) \o NL
       \o Indent2 \o Elem(T_UnitPrice, str_int(item.unit_price)) \o NL
       \o Close(T_ProductItem) \o NL

\* one pass of the loop of createInvoice over data.items
item_xml(item) ==
    NL \o Open(T_ProductItem) \o NL
       \o Indent2 \o Elem(T_ProductionCode, escape(item.production_code)) \o NL
       \o Indent2 \o Elem(T_Description, escape(item.description)) \o NL
       \o Indent2 \o Elem(T_Quantity, str_int(item.quantity)) \o NL
       \o Indent2 \o (IF Truthy(item.unit)
                      THEN Elem(T_Unit, escape(item.unit.val))
                      ELSE <<>>) \o NL
       \o Indent2 \o Elem(T_UnitPrice, str_int(item.unit_price)) \o NL
       \o Close(T_ProductItem) \o NL

RECURSIVE items_xml(_)
\* items_xml of createInvoice
items_xml(items) ==
    IF items = <<>> THEN <<>>
    ELSE items_xml(SubSeq(items, 1, Len(items) - 1)) \o item_xml(items[Len(items)])

\* invoice_xml of createInvoice
create_invoice_xml(d) ==
    NL \o InvoiceOpen \o NL
       \o Elem(T_OrderId, escape(d.order_id)) \o NL
       \o Elem(T_OrderDate, d.order_date) \o NL
       \o Elem(T_BuyerIdentifier, OrEmpty(d.buyer_identifier)) \o NL
       \o Elem(T_BuyerName, escape(OrEmpty(d.buyer_name))) \o NL
       \o Elem(T_BuyerAddress, escape(OrEmpty(d.buyer_address))) \o NL
       \o Elem(T_BuyerEmailAddress, escape(OrEmpty(d.buyer_email))) \o NL
       \o Elem(T_DonateMark, d.donate_mark) \o NL
       \o Elem(T_InvoiceType, d.invoice_type) \o NL
       \o Elem(T_CarrierType, OrEmpty(d.carrier_type)) \o NL
       \o Elem(T_CarrierId1, OrEmpty(d.carrier_id1)) \o NL
       \o Elem(T_CarrierId2, OrEmpty(d.carrier_id2)) \o NL
       \o Elem(T_NPOBAN, OrEmpty(d.npoban)) \o NL
       \o Elem(T_PayWay, d.pay_way) \o NL
       \o Elem(T_TaxType, d.tax_type) \o NL
       \o Elem(T_TaxRate, format_optional_float(d.tax_rate)) \o NL
       \o Elem(T_Remark, escape(OrEmpty(d.remark))) \o NL
       \o Open(T_Details) \o NL
       \o items_xml(d.items) \o NL
       \o Close(T_Details) \o NL
       \o InvoiceClose \o NL

\* invoice_xml of cancelInvoice
cancel_invoice_xml(d) ==
    NL \o InvoiceOpen \o NL
       \o Elem(T_InvoiceNumber, d.invoice_number) \o NL
       \o Elem(T_InvoiceYear, d.invoice_year) \o NL
       \o Elem(T_ReturnTaxDocumentNumber, OrEmpty(d.return_tax_document_number)) \o NL
       \o Elem(T_Remark, escape(d.remark)) \o NL
       \o InvoiceClose \o NL

\* inner of createInvoice and cancelInvoice
invoice_inner(invoice_xml, rentid, src) ==
    NL \o Elem(T_invoicexml, CDataOpen \o invoice_xml \o CDataClose) \o NL
       \o Elem(T_rentid, rentid) \o NL
       \o Elem(T_source, src) \o NL

\* inner of queryInvoice
query_inner(d, rentid, src) ==
    NL \o Elem(T_invoicenumber, d.invoice_number) \o NL
       \o Elem(T_invoiceyear, d.invoice_year) \o NL
       \o Elem(T_rentid, rentid) \o NL
       \o Elem(T_source, src) \o NL

A_CreateInvoiceV3 ==
    <<"C","r","e","a","t","e","I","n","v","o","i","c","e","V","3">>

A_CancelInvoice == <<"C","a","n","c","e","l","I","n","v","o","i","c","e">>

A_CancelInvoiceNoCheck ==
    <<"C","a","n","c","e","l","I","n","v","o","i","c","e","N","o","C","h",
      "e","c","k">>

A_QueryInvoice == <<"Q","u","e","r","y","I","n","v","o","i","c","e">>

\* the envelope up to the action name
SoapHead ==
    <<"<","?","x","m","l"," ","v","e","r","s","i","o","n","=","\"","1",".",
      "0","\""," ","e","n","c","o","d","i","n","g","=","\"","u","t","f","-",
      "8","\"","?",">","\n","<","s","o","a","p",":","E","n","v","e","l","o",
      "p","e"," ","x","m","l","n","s",":","s","o","a","p","=","\"","h","t",
      "t","p",":","/","/","s","c","h","e","m","a","s",".","x","m","l","s",
      "o","a","p",".","o","r","g","/","s","o","a","p","/","e","n","v","e",
      "l","o","p","e","/","\"","\n"," "," "," "," "," "," "," "," "," "," ",
      " "," "," "," "," ","x","m","l","n","s",":","t","n","s","=","\"","h",
      "t","t","p",":","/","/","w","e","b","s","e","r","v","i","c","e",".",
      "c","e","t","u","s","t","e","k",".","c","o","m","/","\"",">","\n"," ",
      " ","<","s","o","a","p",":","B","o","d","y",">","\n"," "," "," "," ",
      "<","t","n","s",":">>

SoapOpenEnd == <<">","\n"," "," "," "," "," "," ">>

SoapCloseStart == <<"\n"," "," "," "," ","<","/","t","n","s",":">>

SoapTail ==
    <<">","\n"," "," ","<","/","s","o","a","p",":","B","o","d","y",">","\n",
      "<","/","s","o","a","p",":","E","n","v","e","l","o","p","e",">","\n">>

\* Cetustek._wrap_soap
wrap_soap(action, inner_xml) ==
    SoapHead \o action \o SoapOpenEnd \o inner_xml \o SoapCloseStart \o action \o SoapTail

\* Response.raise_for_status raises HTTPError for a 4xx or 5xx status
raises_for_status(status) == 400 <= status /\ status < 600

\* a variant that never calls raise_for_status
post_soap_unchecked(resp) == [kind |-> "str", value |-> resp.text]

\* a variant that posts the envelope once more after an error status
post_calls_retrying(url, body, resp) ==
    IF raises_for_status(resp.status)
    THEN <<[url |-> url, data |-> body], [url |-> url, data |-> body]>>
    ELSE <<[url |-> url, data |-> body]>>

\* the calls of requests.post of Cetustek._post_soap, whatever the answer;
\* data is body.encode("utf-8"), and the characters of every envelope
\* written here are ASCII, which UTF-8 encodes as themselves
post_calls(url, body, resp) == <<[url |-> url, data |-> body]>>

\* Cetustek._post_soap: resp.text, or the HTTPError of raise_for_status
post_soap(resp) ==
    IF raises_for_status(resp.status)
    THEN [kind |-> "HTTPError", status |-> resp.status]
    ELSE [kind |-> "str", value |-> resp.text]

-----------------------------------------------------------------------------
(* The client.                                                             *)

\* The three API methods: build, wrap, post, parse, return or raise.  The
\* response resp = [status, text] is what the remote service answers.

\* Cetustek.createInvoice
createInvoice(d, resp) ==
    LET inner == invoice_inner(create_invoice_xml(d), rent_id, source)
        posted == post_soap(resp)
    IN  /\ op' = "createInvoice"
        /\ data' = d
        /\ no_check' = FALSE
        /\ request' = wrap_soap(A_CreateInvoiceV3, inner)
        /\ posts' = post_calls(endpoint, wrap_soap(A_CreateInvoiceV3, inner), resp)
        /\ response' = resp
        /\ result' = IF posted.kind = "str"
                     THEN parse_create_response(posted.value)
                     ELSE posted
        /\ UNCHANGED <<endpoint, rent_id, source>>

\* Cetustek.cancelInvoice
cancelInvoice(d, nc, resp) ==
    LET inner == invoice_inner(cancel_invoice_xml(d), rent_id, source)
        action == IF nc THEN A_CancelInvoiceNoCheck ELSE A_CancelInvoice
        posted == post_soap(resp)
    IN  /\ op' = "cancelInvoice"
        /\ data' = d
        /\ no_check' = nc
        /\ request' = wrap_soap(action, inner)
        /\ posts' = post_calls(endpoint, wrap_soap(action, inner), resp)
        /\ response' = resp
        /\ result' = IF posted.kind = "str"
                     THEN parse_cancel_response(posted.value)
                     ELSE posted
        /\ UNCHANGED <<endpoint, rent_id, source>>

\* a variant that answers a query after a query from memory
queryInvoice_remembering(d, resp) ==
    LET inner == query_inner(d, rent_id, source)
        posted == post_soap(resp)
    IN  /\ op' = "queryInvoice"
        /\ data' = d
        /\ no_check' = FALSE
        /\ request' = wrap_soap(A_QueryInvoice, inner)
        /\ posts' = post_calls(endpoint, wrap_soap(A_QueryInvoice, inner), resp)
        /\ response' = resp
        /\ result' = IF op = "queryInvoice" THEN result
                     ELSE IF posted.kind = "str"
                     THEN parse_query_response(posted.value, d.invoice_number)
                     ELSE posted
        /\ UNCHANGED <<endpoint, rent_id, source>>

\* Cetustek.queryInvoice
queryInvoice(d, resp) ==
    LET inner == query_inner(d, rent_id, source)
        posted == post_soap(resp)
    IN  /\ op' = "queryInvoice"
        /\ data' = d
        /\ no_check' = FALSE
        /\ request' = wrap_soap(A_QueryInvoice, inner)
        /\ posts' = post_calls(endpoint, wrap_soap(A_QueryInvoice, inner), resp)
        /\ response' = resp
        /\ result' = IF posted.kind = "str"
                     THEN parse_query_response(posted.value, d.invoice_number)
                     ELSE posted
        /\ UNCHANGED <<endpoint, rent_id, source>>

-----------------------------------------------------------------------------
(* The inputs explored.                                                    *)

\* all sequences over S of length at most n
SeqsUpTo(S, n) == UNION {[1..k -> S] : k \in 0..n}

\* the characters of the free-text values: plain, the three that
\* escape() rewrites, and the one that ends a CDATA section with them
TextChars == {"a", "&", "<", ">", "]"}

Texts ==
    SeqsUpTo(TextChars, MaxTextLen)
        \cup {<<"]","]",">">>, <<"a","&","b","<","c",">">>, <<"&","a","m","p",";">>}

NoneFloat == [some |-> FALSE, val |-> 0]

Item(pc, ds, q, up, un) ==
    [production_code |-> pc, description |-> ds, quantity |-> q,
     unit_price |-> up, unit |-> un]

Items ==
    {Item(<<"A","A","7">>, <<"D","E","S","C">>, 1, 50000, Some(<<"p","c">>)),
     Item(<<"B","1">>, <<"a","&","b">>, 12, 7, None),
     Item(<<"C","<",">">>, <<"]","]",">">>, 3, 100, Some(<<>>)),
     Item(<<"D","4">>, <<"d">>, 0, 0, Some(<<"<">>))}

\* a create input with every optional field given
CreateFull ==
    [order_id |-> <<"1","2","3","4">>,
     order_date |-> <<"2","0","2","5","/","0","1","/","1","5">>,
     donate_mark |-> <<"0">>,
     invoice_type |-> <<"0","7">>,
     pay_way |-> <<"1">>,
     tax_type |-> <<"1">>,
     items |-> <<Item(<<"A","A","7">>, <<"D","E","S","C">>, 1, 50000, Some(<<"p","c">>))>>,
     buyer_identifier |-> Some(<<"5","3","1","1","8","8","2","3">>),
     buyer_name |-> Some(<<"B","N">>),
     buyer_address |-> Some(<<"B","A">>),
     buyer_email |-> Some(<<"t","@","c",".","t","w">>),
     buyer_person_in_charge |-> Some(<<"P">>),
     buyer_tel |-> Some(<<"0","2">>),
     buyer_fax |-> Some(<<"0","3">>),
     buyer_customer_number |-> Some(<<"9">>),
     carrier_type |-> Some(<<"3","J","0","0","0","2">>),
     carrier_id1 |-> Some(<<"/","A","B","C">>),
     carrier_id2 |-> Some(<<"/","A","B","C">>),
     npoban |-> Some(<<"2","5","8","8","5">>),
     tax_rate |-> [some |-> TRUE, val |-> 5],
     remark |-> Some(<<"r","m","k">>)]

\* the Optional[str] fields of CreateInvoiceInput
OptionalStrFields ==
    {"buyer_identifier", "buyer_name", "buyer_address", "buyer_email",
     "buyer_person_in_charge", "buyer_tel", "buyer_fax", "buyer_customer_number",
     "carrier_type", "carrier_id1", "carrier_id2", "npoban", "remark"}

\* the dataclass defaults: every optional field None, tax_rate 0.05
CreateMin ==
    [f \in DOMAIN CreateFull |->
        IF f \in OptionalStrFields THEN None
        ELSE IF f = "items" THEN <<>>
        ELSE CreateFull[f]]

\* the free-text fields of CreateInvoiceInput that createInvoice escapes
CreateTextFields == {"order_id", "buyer_name", "buyer_address", "buyer_email", "remark"}

SetText(d, f, t) == [d EXCEPT ![f] = IF f = "order_id" THEN t ELSE Some(t)]

CreateInputs ==
    {CreateFull, CreateMin, [CreateMin EXCEPT !.tax_rate = NoneFloat]}
        \cup {SetText(CreateFull, f, t) : f \in CreateTextFields, t \in Texts}
        \cup {[CreateFull EXCEPT ![f] = None] : f \in OptionalStrFields}
        \cup {[CreateFull EXCEPT !.tax_rate = r] :
                 r \in {NoneFloat} \cup {[some |-> TRUE, val |-> h] : h \in {0, 10, 100, 1234}}}
        \cup {[CreateFull EXCEPT !.items = its] : its \in SeqsUpTo(Items, MaxItems)}
        \cup {[CreateFull EXCEPT !.items = <<Item(t, <<"d">>, 1, 1, None)>>] : t \in Texts}
        \cup {[CreateFull EXCEPT !.items = <<Item(<<"p">>, t, 1, 1, None)>>] : t \in Texts}
        \cup {[CreateFull EXCEPT !.items = <<Item(<<"p">>, <<"d">>, 1, 1, Some(t))>>] : t \in Texts}

CancelInputs ==
    {[invoice_number |-> <<"A","B","2","0","2","5","0","0","0","1">>,
      invoice_year |-> <<"2","0","2","5">>,
      remark |-> t,
      return_tax_document_number |-> r] :
        t \in Texts \cup {<<"v","o","i","d">>}, r \in {None, Some(<<>>), Some(<<"D","1">>)}}

QueryInputs ==
    {[invoice_number |-> n, invoice_year |-> <<"2","0","2","5">>] :
        n \in {<<"A","B","2","0","2","5","0","0","0","1">>,
               <<"C","D","2","0","2","5","0","0","0","2">>}}

-----------------------------------------------------------------------------
(* The responses explored.                                                 *)

\* what surrounds the <return> content of a create or cancel body
BodyShapes ==
    {[pre |-> ReturnOpen, post |-> ReturnClose],
     [pre |-> <<"<","s",":","B","o","d","y",">","\n">> \o ReturnOpen \o <<" ">>,
      post |-> <<" ">> \o ReturnClose \o <<"\n","<","/","s",":","B","o","d","y",">">>],
     [pre |-> ReturnOpen, post |-> ReturnClose \o ReturnOpen \o <<"Z">> \o ReturnClose],
     [pre |-> <<>>, post |-> <<>>],
     [pre |-> ReturnOpen, post |-> <<>>],
     [pre |-> <<"<","R","e","t","u","r","n",">">>,
      post |-> <<"<","/","R","e","t","u","r","n",">">>]}

Bodies(atoms) ==
    {sh.pre \o concat(c) \o sh.post : sh \in BodyShapes, c \in SeqsUpTo(atoms, MaxContent)}

CreateAtoms ==
    {<<"A","B","2","0","2","5","0","0","0","1">>, <<"1","2","3","4">>,
     <<"E","0","0","0","1">>, <<";">>, <<"\n">>}

CancelAtoms == {<<"C","0">>, <<"c","0">>, <<"C","1">>, <<"0">>, <<"\n">>}

CreateBodies == Bodies(CreateAtoms)

CancelBodies == Bodies(CancelAtoms)

T_Invoice == <<"I","n","v","o","i","c","e">>

\* elements of the invoice document of a query payload, as the service
\* may write them: matching and differing in case, numeric and malformed
\* amounts, blank content, an entity inside, an opening tag left unclosed
QueryElems ==
    {Elem(T_OrderId, <<"7","8">>),
     Elem(T_TotalAmount, <<"1","0","5">>),
     Elem(T_TotalAmount, <<"1","x">>),
     Elem(T_TotalAmount, <<" ">>),
     Elem(T_InvoiceStatus, <<>>),
     Elem(T_SalesAmount, <<"-",".","5","0">>),
     Elem(T_BuyerName, <<"a","&","a","m","p",";","b">>),
     Open(T_TaxType) \o <<"1">>,
     Elem(T_TaxType, <<"\n","1","\n">>)}

QueryDocs == {Elem(T_Invoice, concat(es)) : es \in SeqsUpTo(QueryElems, MaxQueryElems)}

\* the service's entity escaping of the document it returns
service_escape(doc) ==
    replace(replace(replace(doc, "&", AmpEntity), "<", LtEntity), ">", GtEntity)

\* <return> contents that carry a document: every document escaped, and
\* the documents of at most one element also unescaped, after raw white
\* space, and after white space written as a character reference
QueryPayloads ==
    {service_escape(doc) : doc \in QueryDocs}
        \cup UNION {{doc,
                     <<"\n", " ">> \o service_escape(doc) \o <<"\n">>,
                     <<"&","#","1","0",";">> \o service_escape(doc)} :
                       doc \in {Elem(T_Invoice, e) : e \in QueryElems \cup {<<>>}}}

\* <return> contents that carry an error code instead
QueryErrorPayloads ==
    {<<>>, <<"E","0","0","0","1">>, <<"n","o"," ","&","a","m","p",";"," ","&","l","t",";">>,
     <<"E","&","#","6","0",";">>}

QueryBodies ==
    {ReturnOpen \o pl \o ReturnClose : pl \in QueryPayloads \cup QueryErrorPayloads}
        \cup {<<>>, ReturnOpen \o <<"&","l","t",";","a","&","g","t",";">>}

\* HTTP status codes, on both sides of every class boundary
Statuses == {200, 201, 204, 299, 300, 304, 399, 400, 404, 499, 500, 503, 599}

OK(text) == [status |-> 200, text |-> text]

\* a few bodies under every status
StatusResponses(bodies) == {[status |-> s, text |-> b] : s \in Statuses, b \in bodies}

CreateSamples ==
    {ReturnOpen \o <<"A","B","2","0","2","5","0","0","0","1",";","1","2","3","4">> \o ReturnClose,
     ReturnOpen \o <<"E","0","0","0","1">> \o ReturnClose,
     <<"o","o","p","s">>}

CancelSamples ==
    {ReturnOpen \o <<"C","0">> \o ReturnClose,
     ReturnOpen \o <<"C","1">> \o ReturnClose,
     <<"o","o","p","s">>}

QuerySamples ==
    {ReturnOpen
        \o service_escape(Elem(T_Invoice, Elem(T_OrderID, <<"7","7">>)
                                             \o Elem(T_TotalAmount, <<"1","0","5">>)))
        \o ReturnClose,
     ReturnOpen \o <<"E","0","0","0","1">> \o ReturnClose,
     <<"o","o","p","s">>}

\* the calls of createInvoice explored: every input under a few responses,
\* and every response under a few inputs
CreateCases ==
    (CreateInputs \X {OK(b) : b \in CreateSamples})
        \cup ({CreateFull} \X ({OK(b) : b \in CreateBodies} \cup StatusResponses(CreateSamples)))

CancelSample ==
    [invoice_number |-> <<"A","B","2","0","2","5","0","0","0","1">>,
     invoice_year |-> <<"2","0","2","5">>,
     remark |-> <<"v","o","i","d">>,
     return_tax_document_number |-> None]

CancelCases ==
    (CancelInputs \X BOOLEAN \X {OK(b) : b \in CancelSamples})
        \cup ({CancelSample} \X {FALSE}
                 \X ({OK(b) : b \in CancelBodies} \cup StatusResponses(CancelSamples)))

QuerySample ==
    [invoice_number |-> <<"A","B","2","0","2","5","0","0","0","1">>,
     invoice_year |-> <<"2","0","2","5">>]

QueryCases ==
    (QueryInputs \X {OK(b) : b \in QuerySamples})
        \cup ({QuerySample} \X ({OK(b) : b \in QueryBodies} \cup StatusResponses(QuerySamples)))

-----------------------------------------------------------------------------
(* The specification.                                                      *)

\* Cetustek.__init__
Construct(ep, rid, api_password, site_code) ==
    /\ endpoint = ep
    /\ rent_id = rid
    /\ source = site_code \o api_password

Init ==
    /\ \E rid \in {<<"R","1">>, <<"R","2">>} :
          Construct("https://invoice.cetustek.com.tw/InvoiceMultiWeb/InvoiceAPI",
                    rid, <<"p","w">>, <<"S","C">>)
    /\ op = "none"
    /\ data = None
    /\ no_check = FALSE
    /\ request = <<>>
    /\ response = [status |-> 0, text |-> <<>>]
    /\ result = [kind |-> "none"]
    /\ posts = <<>>

\* The histories explored: on the first client any first call, then any
\* number of further calls drawn from the follow-up cases; on the second
\* client the follow-up cases only.
FirstCall == op = "none" /\ rent_id = <<"R","1">>

CreateFollowUps ==
    {<<CreateFull,
       OK(ReturnOpen \o <<"C","D","2","0","2","5","0","0","0","2",";","9","9","9","9">>
              \o ReturnClose)>>}

CancelFollowUps == {<<CancelSample, TRUE, OK(ReturnOpen \o <<"C","1">> \o ReturnClose)>>}

QueryFollowUps ==
    {<<QuerySample, OK(ReturnOpen \o <<"E","0","0","0","2">> \o ReturnClose)>>}

CreateCall ==
    \E c \in (IF FirstCall THEN CreateCases ELSE CreateFollowUps) :
        createInvoice(c[1], c[2])

CancelCall ==
    \E c \in (IF FirstCall THEN CancelCases ELSE CancelFollowUps) :
        cancelInvoice(c[1], c[2], c[3])

QueryCall ==
    \E c \in (IF FirstCall THEN QueryCases ELSE QueryFollowUps) :
        queryInvoice(c[1], c[2])

Next == CreateCall \/ CancelCall \/ QueryCall

Spec == Init /\ [][Next]_vars

-----------------------------------------------------------------------------
(* What the claims speak of.                                               *)

\* the last call got a 2xx answer, so its body went to the parser
Answered(o) == op = o /\ response.status \in 200..299

\* the places where pattern p occurs in s
Occurrences(s, p) == {i \in Positions(s, p[1]) : MatchAt(s, p, i, FALSE)}

\* the body holds a <return>...</return> element, whatever its content
HasReturnElement(body) ==
    \E i \in Occurrences(body, ReturnOpen) :
        \E j \in Occurrences(body, ReturnClose) : j >= i + Len(ReturnOpen)

\* the trimmed content of the first <return> element of the body
ReturnValue(body) == strip(re_search(body, ReturnOpen, ReturnClose, TRUE, FALSE).group)

\* the call reported the <return> tag as missing
ReportedMissing == result.kind = "CetustekError" /\ result.message = MissingReturnTag

Count(s, c) == Cardinality(Positions(s, c))

(* C1: a create body whose trimmed <return> value holds exactly one ";"    *)
(* gives the response (text before, text after); with none or several,     *)
(* createInvoice raises a CetustekAPIError whose code is the whole value.  *)
C1_CreateParse ==
    (Answered("createInvoice") /\ HasReturnElement(response.text)) =>
        LET v == ReturnValue(response.text)
        IN  IF Count(v, ";") = 1
            THEN LET k == Min(Positions(v, ";"))
                 IN  result = [kind           |-> "CreateInvoiceResponse",
                               invoice_number |-> SubSeq(v, 1, k - 1),
                               random_code    |-> SubSeq(v, k + 1, Len(v))]
            ELSE IsCetustekAPIError(result) /\ result.code = v

(* C2: a cancel body that has a <return> element gives a                   *)
(* CancelInvoiceResponse, never an error, with code the return value and   *)
(* success exactly when that value is "C0".                                *)
C2_CancelParse ==
    (Answered("cancelInvoice") /\ HasReturnElement(response.text)) =>
        /\ result.kind = "CancelInvoiceResponse"
        /\ result.code = ReturnValue(response.text)
        /\ result.success = (ReturnValue(response.text) = <<"C", "0">>)

(* C3: for each operation a body without a <return> element raises a       *)
(* CetustekError that is no CetustekAPIError, and a body with a <return>   *)
(* element is never reported as missing the tag.                           *)
C3_MissingTag ==
    \A o \in {"createInvoice", "cancelInvoice", "queryInvoice"} :
        Answered(o) =>
            IF HasReturnElement(response.text)
            THEN ~ReportedMissing
            ELSE result.kind = "CetustekError"

\* the first <return> element of the body holds no line feed
OneLine(body) ==
    LET m == re_search(body, ReturnOpen, ReturnClose, TRUE, FALSE)
    IN  m.found /\ Positions(m.group, "\n") = {}

(* C4, as stated: a create return value of unexpected shape (more than one *)
(* ";") is raised as a protocol error, never as a CetustekAPIError.        *)
C4_ShapeIsProtocolError ==
    (Answered("createInvoice") /\ OneLine(response.text)
        /\ Count(ReturnValue(response.text), ";") > 1) =>
            IsRaised(result) /\ ~IsCetustekAPIError(result)

(* C4, amended: a create return value with more than one ";" is raised as  *)
(* a CetustekAPIError with the whole value as code and the message         *)
(* "Unexpected response format".                                           *)
C4_ShapeIsAPIError ==
    (Answered("createInvoice") /\ OneLine(response.text)
        /\ Count(ReturnValue(response.text), ";") > 1) =>
            /\ IsCetustekAPIError(result)
            /\ result.code = ReturnValue(response.text)
            /\ result.message = Some(UnexpectedFormat)

C4_Witness ==
    /\ Answered("createInvoice")
    /\ OneLine(response.text)
    /\ Count(ReturnValue(response.text), ";") = 2
    /\ IsCetustekAPIError(result)

\* the entity-unescaped <return> payload of the body
UnescapedPayload(body) == unescape(ReturnValue(body))

QueryOutcome(body, isXml) ==
    IF isXml
    THEN result.kind = "QueryInvoiceResponse" /\ result.raw_xml = UnescapedPayload(body)
    ELSE IsCetustekAPIError(result) /\ result.code = UnescapedPayload(body)

(* C5, as stated: a query raises a CetustekAPIError with the unescaped     *)
(* payload as code whenever that payload does not begin with "<", and      *)
(* returns a response with it as raw_xml whenever it does.                 *)
C5_BeginsWithLt ==
    (Answered("queryInvoice") /\ HasReturnElement(response.text)) =>
        QueryOutcome(response.text, startswith(UnescapedPayload(response.text), <<"<">>))

(* C5, amended: the test is made on the unescaped payload with its         *)
(* surrounding white space trimmed; code and raw_xml are the unescaped     *)
(* payload as it is.                                                       *)
C5_BeginsWithLtTrimmed ==
    (Answered("queryInvoice") /\ HasReturnElement(response.text)) =>
        QueryOutcome(response.text,
                     startswith(strip(UnescapedPayload(response.text)), <<"<">>))

C5_Witness ==
    /\ Answered("queryInvoice")
    /\ HasReturnElement(response.text)
    /\ ~startswith(UnescapedPayload(response.text), <<"<">>)
    /\ result.kind = "QueryInvoiceResponse"
    /\ result.raw_xml = UnescapedPayload(response.text)

(* C7, as stated: under any status outside 200..299 every operation raises *)
(* a transport-level error and the body is not parsed.                     *)
C7_Non2xxRaises ==
    (op # "none" /\ response.status \notin 200..299) => result.kind = "HTTPError"

(* C7, amended: under any status in 400..599 every operation raises the    *)
(* transport-level HTTPError, which is no CetustekError, whatever the body *)
(* holds; under any other status the body is parsed.                       *)
C7_ErrorStatusRaises ==
    op # "none" =>
        IF response.status \in 400..599
        THEN result = [kind |-> "HTTPError", status |-> response.status]
                /\ ~IsCetustekError(result)
        ELSE result.kind # "HTTPError"

C7_Witness ==
    /\ op = "createInvoice"
    /\ response.status = 500
    /\ HasReturnElement(response.text)
    /\ result.kind = "HTTPError"

\* the extracted fields of QueryInvoiceResponse and the tag of each
QueryFields ==
    {[attr |-> "invoice_date", tag |-> T_InvoiceDate],
     [attr |-> "invoice_time", tag |-> T_InvoiceTime],
     [attr |-> "order_id", tag |-> T_OrderID],
     [attr |-> "random_code", tag |-> T_RandomNumber],
     [attr |-> "buyer_identifier", tag |-> T_BuyerIdentifier],
     [attr |-> "buyer_name", tag |-> T_BuyerName],
     [attr |-> "seller_identifier", tag |-> T_SellerIdentifier],
     [attr |-> "seller_name", tag |-> T_SellerName],
     [attr |-> "invoice_status", tag |-> T_InvoiceStatus],
     [attr |-> "donate_mark", tag |-> T_DonateMark],
     [attr |-> "carrier_type", tag |-> T_CarrierType],
     [attr |-> "carrier_id", tag |-> T_CarrierId1],
     [attr |-> "npoban", tag |-> T_NPOBAN],
     [attr |-> "tax_type", tag |-> T_TaxType],
     [attr |-> "sales_amount", tag |-> T_SalesAmount],
     [attr |-> "tax_amount", tag |-> T_TaxAmount],
     [attr |-> "total_amount", tag |-> T_TotalAmount]}

AmountAttrs == {"sales_amount", "tax_amount", "total_amount"}

\* the places of the opening tag in the document, whatever its case
OpenTags(xml, tag) == {i \in Positions(xml, "<") : MatchAt(xml, Open(tag), i, TRUE)}

\* the first opening tag is closed at once: the content is empty
EmptyContent(xml, tag) ==
    /\ OpenTags(xml, tag) # {}
    /\ MatchAt(xml, Close(tag), Min(OpenTags(xml, tag)) + Len(Open(tag)), TRUE)

\* a decimal number: an optional sign, digits with at most one point
ValidNumber(c) ==
    LET u == IF c # <<>> /\ c[1] \in {"+", "-"} THEN Tail(c) ELSE c
    IN  /\ \A k \in 1..Len(u) : u[k] \in Digits \cup {"."}
        /\ Count(u, ".") <= 1
        /\ \E k \in 1..Len(u) : u[k] \in Digits

\* the first element of the tag in the document, whatever its case
ElementOf(xml, tag) == re_search(xml, Open(tag), Close(tag), TRUE, TRUE)

\* the field has no element in the document, or one that holds text only
TextOnly(xml, tag) == Positions(ElementOf(xml, tag).group, "<") = {}

\* what the parser makes of field f in document xml
FieldOf(xml, f) ==
    IF f.attr \in AmountAttrs
    THEN extract_xml_float(xml, f.tag)
    ELSE extract_xml_value(xml, f.tag)

\* the document without the text from position i to position j
Without(xml, i, j) == SubSeq(xml, 1, i - 1) \o SubSeq(xml, j + 1, Len(xml))

\* the document with the first opening tag of the field damaged in three
\* ways: the tag removed, its name misspelt, the whole element removed
\* (the last when the element holds text only)
Damaged(xml, tag) ==
    LET i == Min(OpenTags(xml, tag))
        n == Len(Open(tag))
        m == ElementOf(xml, tag)
    IN  {Without(xml, i, i + n - 1),
         SubSeq(xml, 1, i) \o <<"_">> \o SubSeq(xml, i + 1, Len(xml))}
          \cup (IF m.found /\ Positions(m.group, "<") = {}
                THEN {Without(xml, i, i + n + Len(m.group) + Len(Close(tag)) - 1)}
                ELSE {})

\* the last call was a query whose payload begins with "<"
QueryOfXml ==
    /\ Answered("queryInvoice")
    /\ HasReturnElement(response.text)
    /\ startswith(strip(UnescapedPayload(response.text)), <<"<">>)

(* C6: for every query payload that begins with "<" the call returns a     *)
(* response; a field whose tag is absent or whose content is empty is      *)
(* None; an amount is a number exactly when its content is one, and None   *)
(* otherwise; and removing or misspelling the tag of one field, or         *)
(* removing its element, leaves every other field of the document as it   *)
(* was (every other field whose element holds text only, so that the       *)
(* damaged tag is not part of its content), and the field itself None once *)
(* no tag of it is left.                                                   *)
C6_FieldsIndependent ==
    (Answered("queryInvoice") /\ HasReturnElement(response.text)) =>
        LET xml == UnescapedPayload(response.text)
            lt == Positions(xml, "<")
            present == {f \in QueryFields :
                           \E i \in lt : MatchAt(xml, Open(f.tag), i, TRUE)}
        IN  startswith(strip(xml), <<"<">>) =>
               /\ result.kind = "QueryInvoiceResponse"
               /\ \A f \in QueryFields \ present : ~result[f.attr].some
               /\ \A f \in present :
                     /\ EmptyContent(xml, f.tag) => ~result[f.attr].some
                     /\ f.attr \in AmountAttrs =>
                           (result[f.attr].some
                               <=> /\ ElementOf(xml, f.tag).found
                                   /\ ValidNumber(strip(ElementOf(xml, f.tag).group)))
                     /\ \A x \in Damaged(xml, f.tag) :
                           /\ \A g \in present \ {f} :
                                 TextOnly(xml, g.tag) => FieldOf(x, g) = result[g.attr]
                           /\ OpenTags(x, f.tag) = {} => ~FieldOf(x, f).some

\* a malformed total amount beside an order id that is read all the same
C6_Witness ==
    /\ QueryOfXml
    /\ result.kind = "QueryInvoiceResponse"
    /\ OpenTags(result.raw_xml, T_TotalAmount) # {}
    /\ ~result.total_amount.some
    /\ ~ValidNumber(strip(re_search(result.raw_xml, Open(T_TotalAmount),
                                    Close(T_TotalAmount), TRUE, TRUE).group))
    /\ result.order_id = Some(<<"7", "8">>)

-----------------------------------------------------------------------------
(* The requests built.                                                     *)

\* the k-th smallest member of S
Kth(S, k) == CHOOSE i \in S : Cardinality({j \in S : j < i}) = k - 1

\* the action element of the last create or cancel request
ActionOf ==
    IF op = "createInvoice" THEN A_CreateInvoiceV3
    ELSE IF no_check THEN A_CancelInvoiceNoCheck ELSE A_CancelInvoice

\* what precedes the invoice document in a create or cancel request
BeforeDocument ==
    SoapHead \o ActionOf \o SoapOpenEnd \o NL \o Open(T_invoicexml) \o CDataOpen

\* what follows the invoice document in a create or cancel request
AfterDocument ==
    CDataClose \o Close(T_invoicexml) \o NL
        \o Elem(T_rentid, rent_id) \o NL
        \o Elem(T_source, source) \o NL
        \o SoapCloseStart \o ActionOf \o SoapTail

\* the invoice document of the last create or cancel request: the text of
\* the CDATA section of <invoicexml>
Document == SubSeq(request, Len(BeforeDocument) + 1, Len(request) - Len(AfterDocument))

\* the places of the text where a tag can begin
Markup(text) == Positions(text, "<")

\* the places among lt where pattern p occurs in the text
TagsAt(text, lt, p) == {i \in lt : MatchAt(text, p, i, FALSE)}

\* the text has an element of the tag: an opening tag and a closing tag
\* after it (lt is Markup(text))
HasElement(text, lt, tag) ==
    \E i \in TagsAt(text, lt, Open(tag)) :
        \E j \in TagsAt(text, lt, Close(tag)) : j > i

\* the content of the first element of the tag in the text
ContentOf(text, lt, tag) ==
    LET i == Min(TagsAt(text, lt, Open(tag)))
        j == Min({c \in TagsAt(text, lt, Close(tag)) : c > i})
    IN  SubSeq(text, i + Len(Open(tag)), j - 1)

\* the k-th <ProductItem> block of the document
Block(doc, lt, k) ==
    SubSeq(doc, Kth(TagsAt(doc, lt, Open(T_ProductItem)), k),
                Kth(TagsAt(doc, lt, Close(T_ProductItem)), k)
                    + Len(Close(T_ProductItem)) - 1)

\* the text with "&", "<" and ">" each replaced by its entity
Entity(c) ==
    CASE c = "&" -> AmpEntity
      [] c = "<" -> LtEntity
      [] c = ">" -> GtEntity
      [] OTHER -> <<c>>

EscapedText(v) == concat([k \in 1..Len(v) |-> Entity(v[k])])

(* C8: the document of a create request holds one <ProductItem> block per  *)
(* item of the input, none for an empty list; the blocks follow one        *)
(* another inside <Details> in input order, the k-th carrying the code,    *)
(* description, quantity and price of the k-th item; and the k-th block    *)
(* holds a <Unit> element exactly when the k-th item has a unit, that is   *)
(* a unit that is neither None nor the empty string.                       *)
C8_OneBlockPerItem ==
    op = "createInvoice" =>
        LET doc == Document
            lt == Markup(doc)
            opens == TagsAt(doc, lt, Open(T_ProductItem))
            closes == TagsAt(doc, lt, Close(T_ProductItem))
            details == TagsAt(doc, lt, Open(T_Details))
            enddetails == TagsAt(doc, lt, Close(T_Details))
            n == Len(data.items)
        IN  /\ request = BeforeDocument \o doc \o AfterDocument
            /\ Cardinality(opens) = n
            /\ Cardinality(closes) = n
            /\ Cardinality(details) = 1
            /\ Cardinality(enddetails) = 1
            /\ \A k \in 1..n :
                  /\ Min(details) < Kth(opens, k)
                  /\ Kth(opens, k) < Kth(closes, k)
                  /\ Kth(closes, k) < Min(enddetails)
                  /\ k < n => Kth(closes, k) < Kth(opens, k + 1)
                  /\ LET b == Block(doc, lt, k)
                         m == Markup(b)
                         item == data.items[k]
                     IN  /\ ContentOf(b, m, T_ProductionCode) = EscapedText(item.production_code)
                         /\ ContentOf(b, m, T_Description) = EscapedText(item.description)
                         /\ ContentOf(b, m, T_Quantity) = str_int(item.quantity)
                         /\ ContentOf(b, m, T_UnitPrice) = str_int(item.unit_price)
                         /\ (TagsAt(b, m, Open(T_Unit)) # {})
                                <=> (item.unit.some /\ item.unit.val # <<>>)
                         /\ TagsAt(b, m, Open(T_Unit)) # {}
                                => ContentOf(b, m, T_Unit) = EscapedText(item.unit.val)

\* the k-th block of the last create request has a <Unit> element
UnitInBlock(k) ==
    LET b == Block(Document, Markup(Document), k)
    IN  TagsAt(b, Markup(b), Open(T_Unit)) # {}

\* two different items, the first with a unit and the second without
C8_Witness ==
    /\ op = "createInvoice"
    /\ Len(data.items) = 2
    /\ data.items[1] # data.items[2]
    /\ Truthy(data.items[1].unit)
    /\ ~data.items[2].unit.some
    /\ UnitInBlock(1)
    /\ ~UnitInBlock(2)

\* the optional fields of CreateInvoiceInput that have an element in the
\* invoice document, with the tag of each
CreateOptionalElements ==
    {[attr |-> "buyer_identifier", tag |-> T_BuyerIdentifier],
     [attr |-> "buyer_name", tag |-> T_BuyerName],
     [attr |-> "buyer_address", tag |-> T_BuyerAddress],
     [attr |-> "buyer_email", tag |-> T_BuyerEmailAddress],
     [attr |-> "carrier_type", tag |-> T_CarrierType],
     [attr |-> "carrier_id1", tag |-> T_CarrierId1],
     [attr |-> "carrier_id2", tag |-> T_CarrierId2],
     [attr |-> "npoban", tag |-> T_NPOBAN],
     [attr |-> "tax_rate", tag |-> T_TaxRate],
     [attr |-> "remark", tag |-> T_Remark]}

\* the element of the tag is in the text and its content is empty
RenderedEmpty(text, tag) ==
    /\ HasElement(text, Markup(text), tag)
    /\ ContentOf(text, Markup(text), tag) = <<>>

(* C9: in the document of a create or cancel request every optional field  *)
(* that is None is rendered as its element with empty content: the buyer   *)
(* and carrier fields, NPOBAN, TaxRate and Remark, the Unit of every item, *)
(* and ReturnTaxDocumentNumber.                                            *)
C9_MissingRenderedEmpty ==
    /\ op = "createInvoice" =>
          /\ \A f \in CreateOptionalElements :
                ~data[f.attr].some => RenderedEmpty(Document, f.tag)
          /\ \A k \in 1..Len(data.items) :
                ~data.items[k].unit.some
                    => RenderedEmpty(Block(Document, Markup(Document), k), T_Unit)
    /\ op = "cancelInvoice" =>
          (~data.return_tax_document_number.some
              => RenderedEmpty(Document, T_ReturnTaxDocumentNumber))

\* the free-text fields of a create input, with the tag of each
CreateTextElements ==
    {[attr |-> "order_id", tag |-> T_OrderId],
     [attr |-> "buyer_name", tag |-> T_BuyerName],
     [attr |-> "buyer_address", tag |-> T_BuyerAddress],
     [attr |-> "buyer_email", tag |-> T_BuyerEmailAddress],
     [attr |-> "remark", tag |-> T_Remark]}

\* the value of a free-text field: order_id is a str, the others Optional
TextOf(d, attr) == IF attr = "order_id" THEN d.order_id ELSE OrEmpty(d[attr])

\* the content is the value with each "&", "<", ">" replaced by its entity:
\* it holds no "<" or ">", every "&" of it starts an entity, and "]]>" is
\* nowhere in it
AppearsEscaped(content, value) ==
    /\ content = EscapedText(value)
    /\ Positions(content, "<") = {}
    /\ Positions(content, ">") = {}
    /\ \A i \in Positions(content, "&") :
          \E e \in {AmpEntity, LtEntity, GtEntity} : MatchAt(content, e, i, FALSE)
    /\ Occurrences(content, CDataClose) = {}

(* C10: in every create and cancel request each free-text field (order id, *)
(* buyer name, address and e-mail, remark, and the production code,        *)
(* description and unit of every item) appears escaped in the content of   *)
(* its element: "&", "<" and ">" replaced by "&amp;", "&lt;" and "&gt;",   *)
(* so that the content of no such field holds "]]>".                       *)
C10_FreeTextEscaped ==
    /\ op = "createInvoice" =>
          LET doc == Document
              lt == Markup(doc)
          IN  /\ \A f \in CreateTextElements :
                    AppearsEscaped(ContentOf(doc, lt, f.tag), TextOf(data, f.attr))
              /\ \A k \in 1..Len(data.items) :
                    LET b == Block(doc, lt, k)
                        m == Markup(b)
                        item == data.items[k]
                    IN  /\ AppearsEscaped(ContentOf(b, m, T_ProductionCode),
                                          item.production_code)
                        /\ AppearsEscaped(ContentOf(b, m, T_Description), item.description)
                        /\ Truthy(item.unit)
                              => AppearsEscaped(ContentOf(b, m, T_Unit), item.unit.val)
    /\ op = "cancelInvoice" =>
          AppearsEscaped(ContentOf(Document, Markup(Document), T_Remark), data.remark)

\* a remark that is "]]>" reaches the request as "]]&gt;"
C10_Witness ==
    /\ op = "createInvoice"
    /\ data.remark = Some(CDataClose)
    /\ ContentOf(Document, Markup(Document), T_Remark) = <<"]", "]">> \o GtEntity

-----------------------------------------------------------------------------
(* The responses returned.                                                 *)

IsLetter(c) == c \in DOMAIN LowerOf \/ \E u \in DOMAIN LowerOf : LowerOf[u] = c

AllIn(s, S) == \A k \in 1..Len(s) : s[k] \in S

\* an invoice number as the service issues it: 2 letters and 8 digits
IssuedNumber(n) ==
    /\ Len(n) = 10
    /\ IsLetter(n[1]) /\ IsLetter(n[2])
    /\ AllIn(SubSeq(n, 3, 10), Digits)

\* createInvoice returned a response
Created == op = "createInvoice" /\ result.kind = "CreateInvoiceResponse"

-----------------------------------------------------------------------------
(* The round trip of a call.                                               *)

\* what parsing the body of the last call can end in
ParseOutcomes ==
    {"CetustekError", "CetustekAPIError",
     CASE op = "createInvoice" -> "CreateInvoiceResponse"
       [] op = "cancelInvoice" -> "CancelInvoiceResponse"
       [] OTHER -> "QueryInvoiceResponse"}

\* the text ends with the suffix
endswith(s, suffix) == MatchAt(s, suffix, Len(s) - Len(suffix) + 1, FALSE)

(* C12: every call makes exactly one HTTP POST, whatever its outcome: the   *)
(* POST goes to the endpoint and carries the whole envelope built from the *)
(* input of the call; under an error status the call raises the HTTPError  *)
(* and nothing is parsed, nothing is posted again; under any other status  *)
(* the outcome is that of parsing the body.                                *)
C12_OnePost ==
    op # "none" =>
        /\ Len(posts) = 1
        /\ posts[1].url = endpoint
        /\ posts[1].data = request
        /\ startswith(request, SoapHead)
        /\ endswith(request, SoapTail)
        /\ LET lt == Markup(request)
           IN  /\ Cardinality(TagsAt(request, lt, Elem(T_rentid, rent_id))) = 1
               /\ Cardinality(TagsAt(request, lt, Elem(T_source, source))) = 1
        /\ IF response.status \in 400..599
           THEN result.kind = "HTTPError"
           ELSE result.kind \in ParseOutcomes

\* a call answered 500 that raised after its one POST
C12_Witness ==
    /\ op = "createInvoice"
    /\ response.status = 500
    /\ result.kind = "HTTPError"
    /\ Len(posts) = 1
    /\ posts[1].data = request

-----------------------------------------------------------------------------
(* The client across calls.                                                *)

\* the envelope of a call, from its input and the configuration alone
RequestOf(o, d, nc, rid, src) ==
    CASE o = "createInvoice" ->
            wrap_soap(A_CreateInvoiceV3, invoice_inner(create_invoice_xml(d), rid, src))
      [] o = "cancelInvoice" ->
            wrap_soap(IF nc THEN A_CancelInvoiceNoCheck ELSE A_CancelInvoice,
                      invoice_inner(cancel_invoice_xml(d), rid, src))
      [] OTHER -> wrap_soap(A_QueryInvoice, query_inner(d, rid, src))

\* the outcome of a call, from its input and the response alone
OutcomeOf(o, d, resp) ==
    IF raises_for_status(resp.status)
    THEN [kind |-> "HTTPError", status |-> resp.status]
    ELSE CASE o = "createInvoice" -> parse_create_response(resp.text)
           [] o = "cancelInvoice" -> parse_cancel_response(resp.text)
           [] OTHER -> parse_query_response(resp.text, d.invoice_number)

\* a call: the configuration stays as constructed, the secret token the
\* site code followed by the password; the request and the result are
\* those of the input and the response of this call, whatever the call
\* before; a query response carries the invoice number of its input
CallIsIndependent ==
    /\ endpoint' = endpoint
    /\ rent_id' = rent_id
    /\ source' = source
    /\ source' = <<"S","C">> \o <<"p","w">>
    /\ op' \in {"createInvoice", "cancelInvoice", "queryInvoice"}
    /\ request' = RequestOf(op', data', no_check', rent_id, source)
    /\ result' = OutcomeOf(op', data', response')
    /\ posts' = <<[url |-> endpoint, data |-> request']>>
    /\ result'.kind = "QueryInvoiceResponse" => result'.invoice_number = data'.invoice_number

(* C13: in every call of every sequence of calls, returning or raising,    *)
(* the configuration (endpoint, rent id, secret token = site code then     *)
(* password) is left as constructed, the request sent and the result       *)
(* produced are fixed by the input and the response of that call alone,    *)
(* and a query response carries the invoice number of its input.           *)
C13_CallsIndependent == [][CallIsIndependent]_vars

\* a later call on the first client (its answer is given to no first call),
\* raising, with the configuration as constructed
C13_Witness ==
    /\ rent_id = <<"R","1">>
    /\ source = <<"S","C","p","w">>
    /\ op = "queryInvoice"
    /\ response.text = ReturnOpen \o <<"E","0","0","0","2">> \o ReturnClose
    /\ result = CetustekAPIError(<<"E","0","0","0","2">>, None)
    /\ Occurrences(request, Elem(T_rentid, <<"R","1">>)) # {}
    /\ Occurrences(request, Elem(T_invoicenumber, data.invoice_number)) # {}

=============================================================================
